---- MODULE Spec2Model ----
(***************************************************************************)
(* CRC-32 creation (CRC32.py) and CRC-32 forging (crc32_modifier.py).      *)
(*                                                                         *)
(* Representation.  A non-negative Python int is modelled by the set of    *)
(* the positions of its 1 bits (bit i = coefficient of x^i of the GF(2)    *)
(* polynomial).  Python ints are unbounded, and so are these sets: no      *)
(* width is lost in a shift, and the 33-bit generator is exact.  A byte is *)
(* a subset of 0..7, a byte string a sequence of bytes, a text a sequence  *)
(* of one-character strings.                                               *)
(***************************************************************************)
EXTENDS Integers, Sequences, FiniteSets, TLC

VARIABLES
    \* modify_file_crc32 (and main, which calls it)
    pc,        \* position in main / modify_file_crc32
    raf,       \* content of the file behind the handle raf
    raf0,      \* history: content of the file when the call started
    offset,    \* parameter offset
    newcrc,    \* parameter newcrc (internal, bit-reversed form)
    target,    \* history: the desired CRC-32 in conventional form (main's temp)
    length,    \* local length
    crc,       \* local crc
    delta,     \* local delta
    bytes4,    \* local bytes4
    exc,       \* exception leaving modify_file_crc32, "none" if none
    written,   \* history: raf.write has been executed
    \* main
    args,      \* the argument list
    ret,       \* main's return value ("None" or the message), "running" before
    \* one call of a function of the engine or of the digest, run on its own
    fn,        \* the function called, "none" if none
    inp,       \* its arguments
    loc,       \* its locals
    out,       \* what it returned or raised
    calls      \* history: the last call made of divide_and_remainder and of multiply_mod

vars == <<pc, raf, raf0, offset, newcrc, target, length, crc, delta, bytes4, exc,
          written, args, ret, fn, inp, loc, out, calls>>

\* the state of main and modify_file_crc32, but for pc
forgeVars == <<raf, raf0, offset, newcrc, target, length, crc, delta, bytes4, exc,
               written, args, ret>>

\* the state of a call run on its own
callVars == <<fn, inp, loc, out, calls>>

(***************************************************************************)
(* Python's int operators on the bit-set representation.                   *)
(***************************************************************************)
\* (each result is an enumerated set: TLC would keep a \cup b unevaluated)
Xor(a, b) == {i \in a \cup b : (i \in a) # (i \in b)}    \* a ^ b
And(a, b) == {i \in a : i \in b}                        \* a & b
Or(a, b) == {i \in a \cup b : TRUE}                     \* a | b
Shl(a, n) == {i + n : i \in a}                     \* a << n
Shr(a, n) == {i - n : i \in {j \in a : j >= n}}    \* a >> n

RECURSIVE BitsOf(_)
\* the bit set of a small natural number
BitsOf(n) ==
    IF n = 0 THEN {}
    ELSE Or(IF n % 2 = 1 THEN {0} ELSE {}, Shl(BitsOf(n \div 2), 1))

\* the int hi * 2^16 + lo
Word(hi, lo) == Or(BitsOf(lo), Shl(BitsOf(hi), 16))

Min(a, b) == IF a <= b THEN a ELSE b

(***************************************************************************)
(* crc32_modifier.py: constants                                            *)
(***************************************************************************)
POLYNOMIAL == Word(\H104C1, \H1DB7)      \* 0x104C11DB7
MASK == 0..31                            \* (1 << 32) - 1: bits 0 to 31

(***************************************************************************)
(* crc32_modifier.py: the GF(2) arithmetic engine.                         *)
(* Each loop is an operator on the record of the locals it assigns, one    *)
(* pass of the loop per call.                                              *)
(***************************************************************************)
\* x.bit_length() - 1
get_degree(x) == IF x = {} THEN -1 ELSE CHOOSE i \in x : \A j \in x : j <= i

RECURSIVE reverse32_loop(_)
\* for _ in range(32): y = (y << 1) | (x & 1); x >>= 1
reverse32_loop(s) ==
    IF s.n = 0 THEN s.y
    ELSE reverse32_loop([x |-> Shr(s.x, 1),
                         y |-> Or(Shl(s.y, 1), And(s.x, {0})),
                         n |-> s.n - 1])

reverse32(x) == reverse32_loop([x |-> x, y |-> {}, n |-> 32])

RECURSIVE multiply_mod_loop(_)
\* while y != 0: z ^= x if y & 1; y >>= 1; x <<= 1; x ^= POLYNOMIAL if bit 32 of x
multiply_mod_loop(s) ==
    IF s.y = {} THEN s.z
    ELSE multiply_mod_loop(
             [x |-> IF And(Shr(Shl(s.x, 1), 32), {0}) # {}
                    THEN Xor(Shl(s.x, 1), POLYNOMIAL) ELSE Shl(s.x, 1),
              y |-> Shr(s.y, 1),
              z |-> IF And(s.y, {0}) # {} THEN Xor(s.z, s.x) ELSE s.z])

multiply_mod(x, y) == multiply_mod_loop([x |-> x, y |-> y, z |-> {}])

RECURSIVE pow_mod_loop(_)
\* while y != 0: z = multiply_mod(z, x) if y & 1; x = multiply_mod(x, x); y >>= 1
\* (y, the exponent, is an ordinary natural number)
pow_mod_loop(s) ==
    IF s.y = 0 THEN s.z
    ELSE pow_mod_loop([x |-> multiply_mod(s.x, s.x),
                       y |-> s.y \div 2,
                       z |-> IF s.y % 2 # 0 THEN multiply_mod(s.z, s.x) ELSE s.z])

pow_mod(x, y) == pow_mod_loop([x |-> x, y |-> y, z |-> {0}])

RECURSIVE divide_loop(_)
\* for i in range(get_degree(x) - ydeg, -1, -1):
\*     if (x >> (i + ydeg)) & 1 != 0: x ^= y << i; z |= 1 << i
divide_loop(s) ==
    IF s.i < 0 THEN s
    ELSE IF And(Shr(s.x, s.i + s.ydeg), {0}) # {}
         THEN divide_loop([s EXCEPT !.x = Xor(s.x, Shl(s.y, s.i)),
                                    !.z = Or(s.z, Shl({0}, s.i)),
                                    !.i = s.i - 1])
         ELSE divide_loop([s EXCEPT !.i = s.i - 1])

\* the (z, x) the loop ends with
divide_result(s) == [raised |-> FALSE, q |-> s.z, r |-> s.x]

\* faulty variant: the loop starts one position too low
divide_and_remainder_short(x, y) ==
    IF y = {} THEN [raised |-> TRUE, q |-> {}, r |-> {}]
    ELSE IF x = {} THEN [raised |-> FALSE, q |-> {}, r |-> {}]
    ELSE divide_result(divide_loop([x |-> x, y |-> y, ydeg |-> get_degree(y),
                                    z |-> {}, i |-> get_degree(x) - get_degree(y) - 1]))

\* [raised |-> TRUE] is ValueError("Division by zero")
divide_and_remainder(x, y) ==
    IF y = {} THEN [raised |-> TRUE, q |-> {}, r |-> {}]
    ELSE IF x = {} THEN [raised |-> FALSE, q |-> {}, r |-> {}]
    ELSE divide_result(divide_loop([x |-> x, y |-> y, ydeg |-> get_degree(y),
                                    z |-> {}, i |-> get_degree(x) - get_degree(y)]))

\* one pass of reciprocal_mod's loop, on the locals x, y, a, b
\* q, r = divide_and_remainder(x, y); c = a ^ multiply_mod(q, b);
\* x = y; y = r; a = b; b = c
reciprocal_iter(s) ==
    LET qr == divide_and_remainder(s.x, s.y)
    IN  [x |-> s.y,
         y |-> qr.r,
         a |-> s.b,
         b |-> Xor(s.a, multiply_mod(qr.q, s.b))]

RECURSIVE reciprocal_loop(_)
reciprocal_loop(s) == IF s.y # {} THEN reciprocal_loop(reciprocal_iter(s)) ELSE s

\* the locals when the loop is entered
reciprocal_entry(x) == [x |-> POLYNOMIAL, y |-> x, a |-> {}, b |-> {0}]

\* faulty variant: b is returned, not a
reciprocal_exit_b(s) ==
    IF s.x = {0} THEN [raised |-> FALSE, value |-> s.b]
    ELSE [raised |-> TRUE, value |-> {}]

\* [raised |-> TRUE] is ValueError("Reciprocal does not exist")
reciprocal_exit(s) ==
    IF s.x = {0} THEN [raised |-> FALSE, value |-> s.a]
    ELSE [raised |-> TRUE, value |-> {}]

reciprocal_mod(x) == reciprocal_exit(reciprocal_loop(reciprocal_entry(x)))

(***************************************************************************)
(* The CRC-32 digest: CRC32.py, and zlib.crc32 as get_crc32 calls it       *)
(***************************************************************************)
\* faulty variant: the generator is not bit-reversed
polynomial_unreversed == Word(\H04C1, \H1DB7)

polynomial == Word(\HEDB8, \H8320)      \* 0xEDB88320

RECURSIVE crc_bits(_)
\* for _ in range(8): crc = (crc >> 1) ^ polynomial if crc & 1 else crc >> 1
crc_bits(s) ==
    IF s.n = 0 THEN s.crc
    ELSE crc_bits([crc |-> IF And(s.crc, {0}) # {}
                           THEN Xor(Shr(s.crc, 1), polynomial) ELSE Shr(s.crc, 1),
                   n |-> s.n - 1])

\* one pass of the loop over the bytes: crc ^= byte, then the 8 steps
crc_byte(c, byte) == crc_bits([crc |-> Xor(c, byte), n |-> 8])

RECURSIVE crc_bytes(_)
\* for byte in data, from the k-th byte on
crc_bytes(s) ==
    IF s.k > Len(s.data) THEN s.crc
    ELSE crc_bytes([s EXCEPT !.crc = crc_byte(s.crc, s.data[s.k]), !.k = s.k + 1])

\* zlib.crc32(buffer, value): the running CRC-32 of buffer continued from value
zlib_crc32(buffer, value) ==
    Xor(crc_bytes([crc |-> Xor(value, MASK), data |-> buffer, k |-> 1]), MASK)

\* the size get_crc32 asks of each read
READ_SIZE == 128 * 1024

\* raf.read(n) at position pos of a file opened by open(path, "r+b"): the next
\* n bytes, or what is left of the file
read(f, pos, n) == SubSeq(f, pos + 1, Min(Len(f), pos + n))

\* faulty variant: the running value is not carried over
get_crc32_feed_restart(buffer, c) == zlib_crc32(buffer, {})

\* crc = zlib.crc32(buffer, crc) in get_crc32's loop
get_crc32_feed(buffer, c) == zlib_crc32(buffer, c)

RECURSIVE get_crc32_loop(_)
\* while True: buffer = raf.read(128 * 1024); return reverse32(crc) at the end
\* of the file, else crc = zlib.crc32(buffer, crc)
get_crc32_loop(s) ==
    IF Len(read(s.f, s.pos, READ_SIZE)) = 0 THEN reverse32(s.crc)
    ELSE get_crc32_loop([s EXCEPT
             !.pos = s.pos + Len(read(s.f, s.pos, READ_SIZE)),
             !.crc = get_crc32_feed(read(s.f, s.pos, READ_SIZE), s.crc)])

get_crc32(f) == get_crc32_loop([f |-> f, pos |-> 0, crc |-> {}])

(***************************************************************************)
(* crc32_modifier.py: modify_file_crc32, one action per statement block.   *)
(* pc is the block about to run; "returned" and "raised" are the two ways  *)
(* out of the with block, which closes raf on both.                        *)
(***************************************************************************)
NoBytes == <<>>

\* the byte (reverse32(delta) >> (i * 8)) & 0xFF
delta_byte(d, i) == And(Shr(reverse32(d), i * 8), 0..7)

\* for i in range(4): bytes4[i] ^= (reverse32(delta) >> (i * 8)) & 0xFF
patch_bytes(b4, d) == [i \in 1..Len(b4) |-> Xor(b4[i], delta_byte(d, i - 1))]

\* faulty variant: the write lands one byte late
write_at_late(f, pos, b) ==
    [i \in 1..(IF pos + 1 + Len(b) > Len(f) THEN pos + 1 + Len(b) ELSE Len(f)) |->
        IF i > pos + 1 /\ i <= pos + 1 + Len(b) THEN b[i - pos - 1] ELSE f[i]]

\* raf.seek(pos); raf.write(b): the bytes of b replace those at pos, pos + 1, ...
\* and the file grows if b runs past its end
write_at(f, pos, b) ==
    [i \in 1..(IF pos + Len(b) > Len(f) THEN pos + Len(b) ELSE Len(f)) |->
        IF i > pos /\ i <= pos + Len(b) THEN b[i - pos] ELSE f[i]]

\* faulty variant: the range check is offset + 4 >= length
CheckLength_ge ==
    /\ pc = "modify"
    /\ length' = Len(raf)
    /\ IF offset + 4 >= Len(raf)
       THEN /\ exc' = "ValueError: Byte offset plus 4 exceeds file length"
            /\ pc' = "raised"
       ELSE /\ exc' = exc
            /\ pc' = "get_crc32"
    /\ UNCHANGED <<raf, raf0, offset, newcrc, target, crc, delta, bytes4, written, args, ret>>
    /\ UNCHANGED callVars

\* the with block is entered; raf.seek(0, os.SEEK_END); length = raf.tell();
\* the range check
CheckLength ==
    /\ pc = "modify"
    /\ length' = Len(raf)
    /\ IF offset + 4 > Len(raf)
       THEN /\ exc' = "ValueError: Byte offset plus 4 exceeds file length"
            /\ pc' = "raised"
       ELSE /\ exc' = exc
            /\ pc' = "get_crc32"
    /\ UNCHANGED <<raf, raf0, offset, newcrc, target, crc, delta, bytes4, written, args, ret>>
    /\ UNCHANGED callVars

\* crc = get_crc32(raf)
OriginalCrc ==
    /\ pc = "get_crc32"
    /\ crc' = get_crc32(raf)
    /\ pc' = "delta"
    /\ UNCHANGED <<raf, raf0, offset, newcrc, target, length, delta, bytes4, exc, written, args, ret>>
    /\ UNCHANGED callVars

\* delta = crc ^ newcrc
\* delta = multiply_mod(reciprocal_mod(pow_mod(2, (length - offset) * 8)), delta)
\* faulty variant: the factor is not inverted
compute_delta_no_reciprocal(c, n, len, off) ==
    multiply_mod(pow_mod({1}, (len - off) * 8), Xor(c, n))

\* faulty variant: the factor multiplies newcrc, not crc ^ newcrc
compute_delta_no_xor(c, n, len, off) ==
    multiply_mod(reciprocal_mod(pow_mod({1}, (len - off) * 8)).value, n)

compute_delta(c, n, len, off) ==
    multiply_mod(reciprocal_mod(pow_mod({1}, (len - off) * 8)).value, Xor(c, n))

ComputeDelta ==
    /\ pc = "delta"
    /\ IF reciprocal_mod(pow_mod({1}, (length - offset) * 8)).raised
       THEN /\ exc' = "ValueError: Reciprocal does not exist"
            /\ pc' = "raised"
            /\ delta' = Xor(crc, newcrc)
       ELSE /\ delta' = compute_delta(crc, newcrc, length, offset)
            /\ pc' = "read4"
            /\ exc' = exc
    /\ UNCHANGED <<raf, raf0, offset, newcrc, target, length, crc, bytes4, written, args, ret>>
    /\ UNCHANGED callVars

\* raf.seek(offset); bytes4 = bytearray(raf.read(4)); the short-read check
ReadBytes4 ==
    /\ pc = "read4"
    /\ bytes4' = read(raf, offset, 4)
    /\ IF Len(read(raf, offset, 4)) # 4
       THEN /\ exc' = "IOError: Cannot read 4 bytes at offset"
            /\ pc' = "raised"
       ELSE /\ exc' = exc
            /\ pc' = "patch"
    /\ UNCHANGED <<raf, raf0, offset, newcrc, target, length, crc, delta, written, args, ret>>
    /\ UNCHANGED callVars

\* the for loop over the 4 bytes
PatchBytes4 ==
    /\ pc = "patch"
    /\ bytes4' = patch_bytes(bytes4, delta)
    /\ pc' = "write"
    /\ UNCHANGED <<raf, raf0, offset, newcrc, target, length, crc, delta, exc, written, args, ret>>
    /\ UNCHANGED callVars

\* raf.seek(offset); raf.write(bytes4)
WriteBytes4 ==
    /\ pc = "write"
    /\ raf' = write_at(raf, offset, bytes4)
    /\ written' = TRUE
    /\ pc' = "verify"
    /\ UNCHANGED <<raf0, offset, newcrc, target, length, crc, delta, bytes4, exc, args, ret>>
    /\ UNCHANGED callVars

\* if get_crc32(raf) != newcrc: raise AssertionError(...)
Verify ==
    /\ pc = "verify"
    /\ IF get_crc32(raf) # newcrc
       THEN /\ exc' = "AssertionError: Failed to update CRC-32 to desired value"
            /\ pc' = "raised"
       ELSE /\ exc' = exc
            /\ pc' = "returned"
    /\ UNCHANGED <<raf, raf0, offset, newcrc, target, length, crc, delta, bytes4, written, args, ret>>
    /\ UNCHANGED callVars

modify_file_crc32 ==
    \/ CheckLength
    \/ OriginalCrc
    \/ ComputeDelta
    \/ ReadBytes4
    \/ PatchBytes4
    \/ WriteBytes4
    \/ Verify

(***************************************************************************)
(* Spec: every call modify_file_crc32(path, offset, reverse32(T)) on a     *)
(* file of at most MaxLen bytes.                                           *)
(***************************************************************************)
MaxLen == 6
MaxOffset == 3

\* 0x00, 0xA7
ByteSample == {{}, {0, 1, 2, 5, 7}}

Files == UNION {[1..n -> ByteSample] : n \in 0..MaxLen}

\* 0x00000000, 0xFFFFFFFF, 0xDEADBEEF, 0x00000001
TargetSample == {{}, 0..31, Word(\HDEAD, \HBEEF), {0}}

\* the targets tried on file f: the sample, and the CRC-32 the file has already
Targets(f) == TargetSample \cup {reverse32(get_crc32(f))}

Init ==
    /\ pc = "modify"
    /\ raf \in Files
    /\ raf0 = raf
    /\ offset \in 0..MaxOffset
    /\ target \in Targets(raf)
    /\ newcrc = reverse32(target)
    /\ length = 0
    /\ crc = {}
    /\ delta = {}
    /\ bytes4 = NoBytes
    /\ exc = "none"
    /\ written = FALSE
    /\ args = <<>>
    /\ ret = "running"
    /\ fn = "none"
    /\ inp = <<>>
    /\ loc = <<>>
    /\ out = <<>>
    /\ calls = <<>>

Next == modify_file_crc32

Spec == Init /\ [][Next]_vars

(***************************************************************************)
(* Claims about modify_file_crc32, under Spec                              *)
(***************************************************************************)
Finished == pc \in {"returned", "raised"}

ValidOffset == offset + 4 <= Len(raf0)

RangeError == "ValueError: Byte offset plus 4 exceeds file length"

\* C1 (round trip): a call with a valid offset on a file of at least 4 bytes
\* never raises; it returns, and the CRC-32 of the whole file, computed in one
\* piece, is then the target T whose reverse32 was passed as newcrc.
C1_RoundTrip ==
    (Len(raf0) >= 4 /\ ValidOffset)
        => /\ exc = "none"
           /\ pc # "raised"
           /\ pc = "returned" => zlib_crc32(raf, {}) = target

C1_Witness ==
    /\ pc = "returned"
    /\ target = Word(\HDEAD, \HBEEF)
    /\ Len(raf0) = 6
    /\ offset = 1
    /\ raf # raf0
    /\ zlib_crc32(raf0, {}) # target

C3_Boundary ==
    pc # "modify" =>
        IF offset + 4 > Len(raf0)
        THEN pc = "raised" /\ exc = RangeError /\ ~written /\ raf = raf0
        ELSE exc # RangeError /\ (Finished /\ offset + 4 = Len(raf0) => pc = "returned")

C3_Witness ==
    /\ pc = "raised"
    /\ exc = RangeError
    /\ offset + 4 = Len(raf0) + 1
    /\ Len(raf0) >= 4

\* C4 (forging to the current checksum): if newcrc is get_crc32 of the file
\* before the call, the delta computed is zero and the 4 bytes at
\* [offset, offset + 4) are the same after the write as before the call.
C4_CurrentCrcIsNoOp ==
    (ValidOffset /\ newcrc = get_crc32(raf0)) =>
        /\ pc \in {"read4", "patch", "write", "verify", "returned"} => delta = {}
        /\ pc \in {"verify", "returned"} =>
               read(raf, offset, 4) = read(raf0, offset, 4)
        /\ pc # "raised"

C4_Witness ==
    /\ pc = "returned"
    /\ written
    /\ newcrc = get_crc32(raf0)
    /\ offset = 2
    /\ raf0[3] # {}

(***************************************************************************)
(* crc32_modifier.py: main.  A text is a sequence of one-character         *)
(* strings.  int(text) and int(text, 16) are Python's: white space is      *)
(* stripped from both ends, a sign may follow, then (base 16) an optional  *)
(* 0x or 0X, then digits, with single underscores allowed between digits   *)
(* and after the 0x.                                                       *)
(***************************************************************************)
IsSpace(ch) == ch \in {" ", "\t", "\n", "\r"}

LowerDigits == <<"0", "1", "2", "3", "4", "5", "6", "7", "8", "9",
                 "a", "b", "c", "d", "e", "f">>
UpperDigits == <<"A", "B", "C", "D", "E", "F">>

\* the value of a character as a digit; 37 for a character that is no digit in
\* a base up to 16
digit_value(ch) ==
    IF \E i \in 1..16 : LowerDigits[i] = ch
    THEN (CHOOSE i \in 1..16 : LowerDigits[i] = ch) - 1
    ELSE IF \E i \in 1..6 : UpperDigits[i] = ch
         THEN (CHOOSE i \in 1..6 : UpperDigits[i] = ch) + 9
         ELSE 37

\* the first position from i on that holds no white space (Len(t) + 1: none)
skip_space(t, i) ==
    CHOOSE j \in i..(Len(t) + 1) :
        /\ \A k \in i..(j - 1) : IsSpace(t[k])
        /\ j = Len(t) + 1 \/ ~IsSpace(t[j])

\* the position after an optional sign at i
skip_sign(t, i) == IF i <= Len(t) /\ t[i] \in {"+", "-"} THEN i + 1 ELSE i

\* the position after an optional 0x / 0X at i and one underscore after it
skip_prefix(t, i, base) ==
    IF base = 16 /\ i + 1 <= Len(t) /\ t[i] = "0" /\ t[i + 1] \in {"x", "X"}
    THEN IF i + 2 <= Len(t) /\ t[i + 2] = "_" THEN i + 3 ELSE i + 2
    ELSE i

IsDigitOrUnderscore(ch, base) == digit_value(ch) < base \/ ch = "_"

\* the first position from i on that holds neither a digit nor an underscore
skip_digits(t, i, base) ==
    CHOOSE j \in i..(Len(t) + 1) :
        /\ \A k \in i..(j - 1) : IsDigitOrUnderscore(t[k], base)
        /\ j = Len(t) + 1 \/ ~IsDigitOrUnderscore(t[j], base)

\* int(t, base): [raised |-> TRUE] is ValueError, else the sign and the
\* digits' values, most significant first
py_int(t, base) ==
    LET i0 == skip_space(t, 1)
        i1 == skip_sign(t, i0)
        i2 == skip_prefix(t, i1, base)
        i3 == skip_digits(t, i2, base)
        run == SubSeq(t, i2, i3 - 1)
        ok == /\ i3 > i2
              /\ run[1] # "_"
              /\ run[Len(run)] # "_"
              /\ \A k \in 1..(Len(run) - 1) : ~(run[k] = "_" /\ run[k + 1] = "_")
              /\ skip_space(t, i3) = Len(t) + 1
        ds == SelectSeq(run, LAMBDA ch : ch # "_")
    IN  IF ok
        THEN [raised |-> FALSE, neg |-> (i1 > i0 /\ t[i0] = "-"),
              digits |-> [k \in 1..Len(ds) |-> digit_value(ds[k])]]
        ELSE [raised |-> TRUE, neg |-> FALSE, digits |-> <<>>]

\* the magnitude of base-16 digits, as an int
hex_value(ds) == UNION {Shl(BitsOf(ds[k]), 4 * (Len(ds) - k)) : k \in 1..Len(ds)}

RECURSIVE dec_value(_)
\* the magnitude of base-10 digits, as a number
dec_value(ds) ==
    IF ds = <<>> THEN 0
    ELSE 10 * dec_value(SubSeq(ds, 1, Len(ds) - 1)) + ds[Len(ds)]

startswith_sign(t) == Len(t) >= 1 /\ t[1] \in {"+", "-"}

\* lines 31 to 38: whether the text of the new CRC-32 value is accepted
\* (temp & MASK != temp holds of every negative temp)
crc_text_accepted(t) ==
    /\ ~(Len(t) # 8 \/ startswith_sign(t))
    /\ ~py_int(t, 16).raised
    /\ ~(py_int(t, 16).neg /\ hex_value(py_int(t, 16).digits) # {})
    /\ And(hex_value(py_int(t, 16).digits), MASK) = hex_value(py_int(t, 16).digits)

\* if len(args) != 3: return the usage message
MainArgs ==
    /\ pc = "main"
    /\ IF Len(args) # 3
       THEN /\ ret' = "Usage: python crc32_modifier.py <FileName> <ByteOffset> <NewCrc32Value>"
            /\ pc' = "exit"
       ELSE /\ ret' = ret
            /\ pc' = "main_offset"
    /\ UNCHANGED <<raf, raf0, offset, newcrc, target, length, crc, delta, bytes4, exc, written, args>>
    /\ UNCHANGED callVars

\* offset = int(args[1]), and the check of its sign
MainOffset ==
    /\ pc = "main_offset"
    /\ IF py_int(args[2], 10).raised
       THEN /\ ret' = "Error: Invalid byte offset"
            /\ pc' = "exit"
            /\ offset' = offset
       ELSE IF py_int(args[2], 10).neg /\ dec_value(py_int(args[2], 10).digits) # 0
            THEN /\ ret' = "Error: Negative byte offset"
                 /\ pc' = "exit"
                 /\ offset' = 0 - dec_value(py_int(args[2], 10).digits)
            ELSE /\ ret' = ret
                 /\ pc' = "main_crc"
                 /\ offset' = dec_value(py_int(args[2], 10).digits)
    /\ UNCHANGED <<raf, raf0, newcrc, target, length, crc, delta, bytes4, exc, written, args>>
    /\ UNCHANGED callVars

\* the validation of args[2]; temp = int(args[2], 16); new_crc = reverse32(temp)
MainCrc ==
    /\ pc = "main_crc"
    /\ IF crc_text_accepted(args[3])
       THEN /\ target' = hex_value(py_int(args[3], 16).digits)
            /\ newcrc' = reverse32(hex_value(py_int(args[3], 16).digits))
            /\ ret' = ret
            /\ pc' = "modify"
       ELSE /\ ret' = "Error: Invalid new CRC-32 value"
            /\ pc' = "exit"
            /\ UNCHANGED <<target, newcrc>>
    /\ UNCHANGED callVars
    /\ UNCHANGED <<raf, raf0, offset, length, crc, delta, bytes4, exc, written, args>>
    /\ UNCHANGED callVars

\* modify_file_crc32 has returned or raised: the except clauses, return None
MainReturn ==
    /\ pc \in {"returned", "raised"}
    /\ ret' = IF pc = "returned" THEN "None"
              ELSE IF exc = "IOError: Cannot read 4 bytes at offset"
                   THEN "I/O error: Cannot read 4 bytes at offset"
              ELSE IF exc = "ValueError: Byte offset plus 4 exceeds file length"
                   THEN "Error: Byte offset plus 4 exceeds file length"
              ELSE IF exc = "ValueError: Reciprocal does not exist"
                   THEN "Error: Reciprocal does not exist"
              ELSE "Assertion error: Failed to update CRC-32 to desired value"
    /\ pc' = "exit"
    /\ UNCHANGED <<raf, raf0, offset, newcrc, target, length, crc, delta, bytes4, exc, written, args>>
    /\ UNCHANGED callVars

main == MainArgs \/ MainOffset \/ MainCrc \/ MainReturn

(***************************************************************************)
(* SpecMain: main on a 6-byte file, for sampled argument lists.            *)
(***************************************************************************)
\* b"george": 0x67 0x65 0x6F 0x72 0x67 0x65
George == <<BitsOf(\H67), BitsOf(\H65), BitsOf(\H6F), BitsOf(\H72),
            BitsOf(\H67), BitsOf(\H65)>>

\* how a text of the new CRC-32 value may start
TextHeads ==
    {<<"0", "0">>, <<"0", "x">>, <<"0", "X">>, <<"d", "E">>, <<" ", "0">>,
     <<" ", " ">>, <<"+", "0">>, <<"-", "0">>, <<" ", "+">>, <<" ", "-">>,
     <<"_", "0">>, <<"0", "_">>, <<"x", "0">>, <<"\t", "0">>, <<"0">>,
     <<"0", "0", "0">>}

\* ... go on
TextMiddles ==
    {<<"0", "0", "0", "0">>, <<"A", "d", "B", "e">>, <<"1", "_", "2", "f">>,
     <<"1", "_", "_", "f">>, <<"0", "0", "g", "0">>, <<"0", "0", " ", "0">>,
     <<"_", "0", "0", "0">>}

\* ... and end
TextTails ==
    {<<"0", "0">>, <<"e", "F">>, <<"0", " ">>, <<" ", " ">>, <<"0", "_">>,
     <<"_", "0">>, <<"0", "g">>, <<"0", "\n">>}

CrcTexts == {h \o m \o t : h \in TextHeads, m \in TextMiddles, t \in TextTails}

\* texts of the byte offset
OffsetTexts ==
    {<<"0">>, <<"2">>, <<"3">>, <<"-", "1">>, <<"x">>, <<" ", "1">>,
     <<"1", "_">>, <<"+", "0", "2">>}

FileName == <<"f">>

\* the argument lists: three arguments, or two, or four
ArgLists ==
    {<<FileName, o, c>> : o \in OffsetTexts, c \in CrcTexts}
        \cup {<<FileName, o>> : o \in OffsetTexts}
        \cup {<<FileName, o, o, o>> : o \in OffsetTexts}

InitMain ==
    /\ pc = "main"
    /\ args \in ArgLists
    /\ ret = "running"
    /\ raf = George
    /\ raf0 = George
    /\ offset = 0
    /\ newcrc = {}
    /\ target = {}
    /\ length = 0
    /\ crc = {}
    /\ delta = {}
    /\ bytes4 = NoBytes
    /\ exc = "none"
    /\ written = FALSE
    /\ fn = "none"
    /\ inp = <<>>
    /\ loc = <<>>
    /\ out = <<>>
    /\ calls = <<>>

NextMain == main \/ modify_file_crc32

SpecMain == InitMain /\ [][NextMain]_vars

(***************************************************************************)
(* Claim about main, under SpecMain                                        *)
(***************************************************************************)
HexDigitChars == {"0", "1", "2", "3", "4", "5", "6", "7", "8", "9",
                  "a", "b", "c", "d", "e", "f", "A", "B", "C", "D", "E", "F"}

EightHexDigits(t) == Len(t) = 8 /\ \A i \in 1..8 : t[i] \in HexDigitChars

\* C9: a call with three arguments and an accepted byte offset whose third
\* argument is not exactly 8 hexadecimal digits never enters
\* modify_file_crc32 (so nothing is written), and main returns
\* "Error: Invalid new CRC-32 value".
C9_OnlyEightHexDigits ==
    (Len(args) = 3 /\ ~EightHexDigits(args[3])
                   /\ pc \notin {"main", "main_offset", "main_crc"}
                   /\ ret \notin {"Error: Invalid byte offset", "Error: Negative byte offset"})
        => /\ pc = "exit"
           /\ ret = "Error: Invalid new CRC-32 value"
           /\ ~written

(***************************************************************************)
(* Calls of the engine run on their own.  The forging state stays idle.    *)
(***************************************************************************)
ForgeIdle ==
    /\ raf = <<>>
    /\ raf0 = <<>>
    /\ offset = 0
    /\ newcrc = {}
    /\ target = {}
    /\ length = 0
    /\ crc = {}
    /\ delta = {}
    /\ bytes4 = NoBytes
    /\ exc = "none"
    /\ written = FALSE
    /\ args = <<>>
    /\ ret = "running"

LowBits == 4
HighBits == 3

\* 32-bit values: any of the LowBits lowest bits with any of the HighBits
\* highest, and 0xFFFFFFFF, 0xDEADBEEF, 0xEDB88320
Sample32 ==
    {Or(lo, hi) : lo \in SUBSET (0..(LowBits - 1)), hi \in SUBSET ((32 - HighBits)..31)}
        \cup {0..31, Word(\HDEAD, \HBEEF), Word(\HEDB8, \H8320)}

(***************************************************************************)
(* SpecRecip: reciprocal_mod(x), one pass of its loop per step.            *)
(***************************************************************************)
InitRecip ==
    /\ ForgeIdle
    /\ pc = "reciprocal_loop"
    /\ fn = "reciprocal_mod"
    /\ inp \in {[x |-> x] : x \in Sample32}
    /\ loc = reciprocal_entry(inp.x)
    /\ out = <<>>
    /\ calls = <<>>

\* while y != 0: one pass
RecipIterate ==
    /\ pc = "reciprocal_loop"
    /\ loc.y # {}
    /\ loc' = reciprocal_iter(loc)
    /\ calls' = [div |-> [x |-> loc.x, y |-> loc.y,
                          q |-> divide_and_remainder(loc.x, loc.y).q,
                          r |-> divide_and_remainder(loc.x, loc.y).r],
                 mul |-> [x |-> divide_and_remainder(loc.x, loc.y).q, y |-> loc.b,
                          z |-> multiply_mod(divide_and_remainder(loc.x, loc.y).q, loc.b)]]
    /\ UNCHANGED <<pc, fn, inp, out>>
    /\ UNCHANGED forgeVars

\* the loop is left: return a, or raise
RecipReturn ==
    /\ pc = "reciprocal_loop"
    /\ loc.y = {}
    /\ out' = reciprocal_exit(loc)
    /\ pc' = "done"
    /\ UNCHANGED <<fn, inp, loc, calls>>
    /\ UNCHANGED forgeVars

NextRecip == RecipIterate \/ RecipReturn

SpecRecip == InitRecip /\ [][NextRecip]_vars

\* C5: for every nonzero x below 2^32, reciprocal_mod(x) returns (it does not
\* raise), what it returns times x is 1 modulo the generator, and
\* reciprocal_mod(multiply_mod(reciprocal_mod(x), x)) is 1.
C5_ReciprocalIsInverse ==
    (pc = "done" /\ inp.x # {}) =>
        /\ ~out.raised
        /\ out.value \subseteq 0..31
        /\ multiply_mod(out.value, inp.x) = {0}
        /\ ~reciprocal_mod(multiply_mod(reciprocal_mod(inp.x).value, inp.x)).raised
        /\ reciprocal_mod(multiply_mod(reciprocal_mod(inp.x).value, inp.x)).value = {0}

C5_Witness ==
    /\ pc = "done"
    /\ inp.x = Word(\HDEAD, \HBEEF)
    /\ out.value \notin {{}, {0}}
    /\ calls.div.y = {0}

\* C10: every call of multiply_mod that reciprocal_mod makes returns a value
\* below 2^32.
C10_ProductBelow2To32 ==
    calls # <<>> => calls.mul.z \subseteq 0..31

(***************************************************************************)
(* SpecDiv: divide_and_remainder(x, y) for sampled dividends and divisors. *)
(***************************************************************************)
\* the dividends: the 32-bit sample and the generator
Dividends == Sample32 \cup {POLYNOMIAL}

\* the divisors: any of bits 0, 1, 2 with any of bits 7, 16, 31, and 0xFFFFFFFF
Divisors == {Or(lo, hi) : lo \in SUBSET (0..2), hi \in SUBSET {7, 16, 31}} \cup {0..31}

InitDiv ==
    /\ ForgeIdle
    /\ pc = "divide_and_remainder"
    /\ fn = "divide_and_remainder"
    /\ inp \in {[x |-> x, y |-> y] : x \in Dividends, y \in Divisors}
    /\ loc = <<>>
    /\ out = <<>>
    /\ calls = <<>>

Divide ==
    /\ pc = "divide_and_remainder"
    /\ out' = divide_and_remainder(inp.x, inp.y)
    /\ pc' = "done"
    /\ UNCHANGED <<fn, inp, loc, calls>>
    /\ UNCHANGED forgeVars

NextDiv == Divide

SpecDiv == InitDiv /\ [][NextDiv]_vars

\* C6, as stated: for every dividend up to the 33-bit generator and every
\* nonzero divisor, multiply_mod(quotient, y) xor remainder is the dividend.
C6_AsStated ==
    (pc = "done" /\ inp.y # {}) =>
        Xor(multiply_mod(out.q, inp.y), out.r) = inp.x

\* C6, amended: the identity holds for every dividend below 2^32 and every
\* nonzero divisor (and the remainder's degree is below the divisor's).  With
\* the 33-bit generator as the dividend and a divisor of 2 or more the left
\* side is 0, the dividend reduced modulo the generator.
C6_Amended ==
    (pc = "done" /\ inp.y # {}) =>
        /\ ~out.raised
        /\ get_degree(out.r) < get_degree(inp.y)
        /\ inp.x \subseteq 0..31 => Xor(multiply_mod(out.q, inp.y), out.r) = inp.x
        /\ (inp.x = POLYNOMIAL /\ inp.y # {0}) =>
               Xor(multiply_mod(out.q, inp.y), out.r) = {}

C6_Witness ==
    /\ pc = "done"
    /\ inp.x = Word(\HDEAD, \HBEEF)
    /\ inp.y = {0, 2, 7}
    /\ out.r # {}
    /\ Cardinality(out.q) > 2

(***************************************************************************)
(* SpecCrc: CRC32.py, calculate_crc32(data), one byte per step.  A str is  *)
(* a sequence of code points.                                              *)
(***************************************************************************)
\* the UTF-8 bytes of one code point (no surrogate), as numbers
utf8(cp) ==
    IF cp < 128 THEN <<cp>>
    ELSE IF cp < 2048 THEN <<192 + (cp \div 64), 128 + (cp % 64)>>
    ELSE IF cp < 65536
         THEN <<224 + (cp \div 4096), 128 + ((cp \div 64) % 64), 128 + (cp % 64)>>
         ELSE <<240 + (cp \div 262144), 128 + ((cp \div 4096) % 64),
                128 + ((cp \div 64) % 64), 128 + (cp % 64)>>

IsSurrogate(cp) == cp >= 55296 /\ cp <= 57343

RECURSIVE encode(_)
\* data.encode('utf-8') of a str without surrogates
encode(data) ==
    IF data = <<>> THEN <<>>
    ELSE encode(SubSeq(data, 1, Len(data) - 1))
             \o [k \in 1..Len(utf8(data[Len(data)])) |-> BitsOf(utf8(data[Len(data)])[k])]

MaxChars == 3

\* g, NUL, e acute, the euro sign, an emoji, a lone surrogate
CodePoints == {103, 0, 233, 8364, 128512, 55296}

\* "george", the test string of run_crc_test
GeorgeStr == <<103, 101, 111, 114, 103, 101>>

\* "123456789"
Check9 == <<49, 50, 51, 52, 53, 54, 55, 56, 57>>

Strings == UNION {[1..n -> CodePoints] : n \in 0..MaxChars} \cup {GeorgeStr, Check9}

InitCrc ==
    /\ ForgeIdle
    /\ pc = "encode"
    /\ fn = "calculate_crc32"
    /\ inp \in {[data |-> d] : d \in Strings}
    /\ loc = <<>>
    /\ out = <<>>
    /\ calls = <<>>

\* byte_data = data.encode('utf-8'), which raises UnicodeEncodeError on a
\* surrogate; crc = 0xFFFFFFFF
CrcEncode ==
    /\ pc = "encode"
    /\ IF \E k \in 1..Len(inp.data) : IsSurrogate(inp.data[k])
       THEN /\ out' = [raised |-> TRUE, value |-> {}]
            /\ pc' = "done"
            /\ loc' = loc
       ELSE /\ loc' = [byte_data |-> encode(inp.data), crc |-> 0..31, k |-> 1]
            /\ pc' = "loop"
            /\ out' = out
    /\ UNCHANGED <<fn, inp, calls>>
    /\ UNCHANGED forgeVars

\* for byte in byte_data: one pass
CrcByte ==
    /\ pc = "loop"
    /\ loc.k <= Len(loc.byte_data)
    /\ loc' = [loc EXCEPT !.crc = crc_byte(loc.crc, loc.byte_data[loc.k]),
                          !.k = loc.k + 1]
    /\ UNCHANGED <<pc, fn, inp, out, calls>>
    /\ UNCHANGED forgeVars

\* calculate_crc32's result: crc ^ 0xFFFFFFFF
crc_final(c) == Xor(c, 0..31)

\* return crc ^ 0xFFFFFFFF
CrcReturn ==
    /\ pc = "loop"
    /\ loc.k > Len(loc.byte_data)
    /\ out' = [raised |-> FALSE, value |-> crc_final(loc.crc)]
    /\ pc' = "done"
    /\ UNCHANGED <<fn, inp, loc, calls>>
    /\ UNCHANGED forgeVars

NextCrc == CrcEncode \/ CrcByte \/ CrcReturn

SpecCrc == InitCrc /\ [][NextCrc]_vars

(***************************************************************************)
(* The canonical CRC-32/ISO-HDLC of a byte string, as a remainder: the     *)
(* message polynomial (each byte's low bit first, 32 zero bits appended,   *)
(* its first 32 bits complemented) is divided by x^32 + x^26 + ... + 1,    *)
(* high coefficient first; the remainder is reflected and complemented.    *)
(***************************************************************************)
Generator == {32, 26, 23, 22, 16, 12, 11, 10, 8, 7, 5, 4, 2, 1, 0}

Reflect(x, width) == {width - 1 - i : i \in x}

\* the k-th byte of the message that is divided, high coefficient = bit 7
DividedByte(data, k) ==
    Xor(IF k <= Len(data) THEN Reflect(data[k], 8) ELSE {},
        IF k <= 4 THEN 0..7 ELSE {})

RECURSIVE RemainderBits(_)
\* r := (r * x + the next coefficient of the byte) modulo the generator
RemainderBits(s) ==
    IF s.i < 0 THEN s.r
    ELSE RemainderBits(
             [s EXCEPT !.i = s.i - 1,
                       !.r = IF 31 \in s.r
                             THEN Xor(Or(Shl(s.r, 1), IF s.i \in s.byte THEN {0} ELSE {}),
                                      Generator)
                             ELSE Or(Shl(s.r, 1), IF s.i \in s.byte THEN {0} ELSE {})])

RECURSIVE RemainderBytes(_)
RemainderBytes(s) ==
    IF s.k > Len(s.data) + 4 THEN s.r
    ELSE RemainderBytes(
             [s EXCEPT !.k = s.k + 1,
                       !.r = RemainderBits([r |-> s.r, i |-> 7,
                                            byte |-> DividedByte(s.data, s.k)])])

CanonicalCrc32(data) ==
    Xor(Reflect(RemainderBytes([data |-> data, k |-> 1, r |-> {}]), 32), 0..31)

\* C7: for every non-empty byte string calculate_crc32 returns the canonical
\* CRC-32/ISO-HDLC value, a value below 2^32; of "123456789" that is the
\* check value 0xCBF43926.
C7_CanonicalCrc32 ==
    (pc = "done" /\ ~out.raised /\ Len(loc.byte_data) > 0) =>
        /\ out.value = CanonicalCrc32(loc.byte_data)
        /\ out.value \subseteq 0..31
        /\ inp.data = Check9 => out.value = Word(\HCBF4, \H3926)

C7_Witness ==
    /\ pc = "done"
    /\ inp.data = GeorgeStr
    /\ Len(loc.byte_data) = 6
    /\ out.value = Word(\HD6B5, \H55A0)

(***************************************************************************)
(* SpecStream: get_crc32's loop, fed the file in chunks of any lengths.    *)
(***************************************************************************)
InitStream ==
    /\ ForgeIdle
    /\ pc = "get_crc32"
    /\ fn = "get_crc32"
    /\ inp \in {[raf |-> f] : f \in Files}
    /\ loc = [pos |-> 0, crc |-> {}, chunks |-> 0]
    /\ out = <<>>
    /\ calls = <<>>

\* buffer = raf.read(128 * 1024), here of any length n from 1 to what is left;
\* crc = zlib.crc32(buffer, crc)
StreamRead(n) ==
    /\ pc = "get_crc32"
    /\ loc.pos + n <= Len(inp.raf)
    /\ loc' = [pos |-> loc.pos + n,
               crc |-> get_crc32_feed(read(inp.raf, loc.pos, n), loc.crc),
               chunks |-> loc.chunks + 1]
    /\ UNCHANGED <<pc, fn, inp, out, calls>>
    /\ UNCHANGED forgeVars

\* len(buffer) == 0: return reverse32(crc)
StreamReturn ==
    /\ pc = "get_crc32"
    /\ loc.pos = Len(inp.raf)
    /\ out' = [raised |-> FALSE, value |-> reverse32(loc.crc)]
    /\ pc' = "done"
    /\ UNCHANGED <<fn, inp, loc, calls>>
    /\ UNCHANGED forgeVars

NextStream ==
    \/ \E n \in 1..Min(READ_SIZE, Len(inp.raf) - loc.pos) : StreamRead(n)
    \/ StreamReturn

SpecStream == InitStream /\ [][NextStream]_vars

\* C8: however the bytes are split into chunks, the running value after a
\* chunk is the CRC-32 of the bytes fed so far computed in one piece, and the
\* value returned at the end is the value of the whole file fed as one buffer.
C8_ChunkedEqualsOneShot ==
    /\ loc.crc = zlib_crc32(SubSeq(inp.raf, 1, loc.pos), {})
    /\ pc = "done" => out.value = reverse32(zlib_crc32(inp.raf, {}))

C8_Witness ==
    /\ pc = "done"
    /\ Len(inp.raf) = 5
    /\ loc.chunks = 3
    /\ inp.raf[2] # inp.raf[4]

====
